---- MODULE Spec2Model ----
(***************************************************************************)
(* cinevoz: the synchronisation controller of LiveDescriber.tsx            *)
(* (startSync / stopSync / runSyncCheck / seekTo / forceResync, the        *)
(* rolling live buffer and the view-switching effect) over the             *)
(* AudioMatcher of utils/audioMatcher.ts.                                  *)
(*                                                                         *)
(* All times are integers in milliseconds: Date.now() values, and media    *)
(* times (the code's seconds, x 1000).  36.0 s is 36000, the latency       *)
(* compensation 0.5 s is 500.                                              *)
(***************************************************************************)
EXTENDS Integers, Sequences, FiniteSets, TLC

VARIABLES
    view,                \* 'library' | 'studio'
    selectedMovie,       \* the movie entered, NoMovie before the first entry
    studioContext,       \* studioContextRef.current is non-null
    masterEnvelope,      \* audioMatcher.masterEnvelope: the movie it was built from, or NoMaster
    isProcessingMatrix,  \* React state, disables the start button
    pendingStarts,       \* startSync calls awaiting processReferenceFile (the movie of each)
    isSyncActive,        \* React state, chooses the start or the stop button
    isLocked,            \* React state, shows the resync button
    currentMovieTime,    \* currentMovieTimeRef.current
    liveBuffer,          \* liveBufferRef.current: chunks, oldest first
    syncInterval,        \* syncIntervalRef.current: a timer id or Undefined
    timers,              \* the intervals the browser has armed: [id, due]
    potentialSync,       \* potentialSyncRef.current
    syncLockUntil,       \* syncLockUntilRef.current
    isGlobalScanNeeded,  \* isGlobalScanNeeded.current
    now,                 \* the wall clock, Date.now()
    pushedSinceClear,    \* history: chunks pushed since the buffer was last emptied
    stopRequested,       \* history: stopSync ran and startSync was not invoked since
    seekWindow,          \* history: the end of the 5 s window the latest seek opened,
                         \* 0 once it has passed
    scanned,             \* history: a tick has called findMatch since startSync armed
                         \* the interval
    lastCall,            \* history: the handler that ran last, what it did and what it
                         \* reported (setSyncConfidence, setLastSyncUpdate)
    probe                \* the AudioMatcher call under examination (MatcherSpec)

vars == <<view, selectedMovie, studioContext, masterEnvelope,
          isProcessingMatrix, pendingStarts, isSyncActive, isLocked,
          currentMovieTime, liveBuffer, syncInterval, timers,
          potentialSync, syncLockUntil, isGlobalScanNeeded, now, pushedSinceClear,
          stopRequested, seekWindow, scanned, lastCall, probe>>

(***************************************************************************)
(* Bounds of the exploration.                                              *)
(***************************************************************************)
MaxNow == 12000
MaxMovies == 2
SampleRate == 44100

(***************************************************************************)
(* Program constants.                                                      *)
(***************************************************************************)
MAX_CHUNKS == 90
MIN_CHUNKS == 30
TICK_INTERVAL_MS == 2000
STABILIZE_MS == 5000
LATENCY_COMPENSATION == 500
MIN_CONFIDENCE_GLOBAL == 30
MIN_CONFIDENCE_LOCAL == 40
MAX_DRIFT == 3000
VERIFY_TOLERANCE == 2000
REQUIRED_COUNT == 2
LOCAL_SCAN_WINDOW == 120000
SCRIPT_BUFFER_SIZE == 4096

\* null for potentialSyncRef: the ref holds <<>> or <<candidate>>
NULL == <<>>
\* syncIntervalRef.current before the first setInterval (timer ids are positive)
Undefined == 0
\* the permanent-lock sentinel; every Date.now() value is below it (LessThan)
Infinity == -1
\* no movie selected, and audioMatcher.masterEnvelope === null
NoMovie == 0
NoMaster == 0
NoResult == [currentTime |-> -1, confidence |-> -1]

Movies == 1..MaxMovies
\* the clock advances in steps of one second
ClockStep == TICK_INTERVAL_MS \div 2
\* capture callbacks per clock step: one per SCRIPT_BUFFER_SIZE samples
ChunksPerStep == (SampleRate * ClockStep) \div (SCRIPT_BUFFER_SIZE * 1000)

Max(a, b) == IF a >= b THEN a ELSE b
Abs(a) == IF a >= 0 THEN a ELSE 0 - a

\* a < b where b may be the Infinity sentinel (a is always finite)
LessThan(a, b) == IF b = Infinity THEN TRUE ELSE a < b

\* Math.ceil(ms / 1000) for ms > 0
CeilSeconds(ms) == (ms + 999) \div 1000

(***************************************************************************)
(* What the matcher can return to a tick.  findMatch is a function of the  *)
(* captured audio, which is the environment's: a tick draws its result     *)
(* from this set.  The zero result is findMatch's early exit.              *)
(***************************************************************************)
MatchTimes == {36000, 38000, 40000}
MatchConfidences == {30, 40, 90}
MatchResults ==
    {[currentTime |-> 0, confidence |-> 0]} \cup
    {[currentTime |-> t, confidence |-> c] : t \in MatchTimes, c \in MatchConfidences}

\* the positions the slider is dragged to
SeekTimes == {32500}

Status(text, arg) == [text |-> text, arg |-> arg]
NoStatus == Status("", 0)
\* no AudioMatcher call is under examination
NoProbe == [op |-> "none"]
NotReported == 0 - 1

\* the refs a handler found when it was called
NoPre == [potentialSync |-> <<>>, currentMovieTime |-> 0, syncLockUntil |-> 0,
          isGlobalScanNeeded |-> TRUE, buffered |-> 0, scanned |-> FALSE,
          liveBuffer |-> <<>>, pushedSinceClear |-> 0, armed |-> 0]

\* the searchHintTime (ms) and scanWidthSeconds (ms) handed to findMatch
Scan(hint, width) == [hint |-> hint, width |-> width]
\* findMatch was not called
NoScan == Scan(0, 0)

\* what a handler did: its argument, the refs it found, its branch, whether it
\* called findMatch, with what hint and width and with what result, and what
\* it passed to setSyncConfidence and setLastSyncUpdate
Call(op, arg, pre, branch, findMatch, result, confidence, status) ==
    [op |-> op, arg |-> arg, pre |-> pre, branch |-> branch,
     findMatch |-> findMatch, scan |-> NoScan, result |-> result,
     confidence |-> confidence, status |-> status]
Plain(op) == Call(op, 0, NoPre, "", FALSE, NoResult, NotReported, NoStatus)

(***************************************************************************)
(* The rolling live buffer: processor.onaudioprocess.                      *)
(***************************************************************************)
\* variant: a full buffer drops the chunk that has just arrived
onaudioprocess_DropsNewest(buf, chunk) ==
    LET pushed == Append(buf, chunk)
    IN  IF Len(pushed) > MAX_CHUNKS THEN SubSeq(pushed, 1, MAX_CHUNKS) ELSE pushed

onaudioprocess(buf, chunk) ==
    LET pushed == Append(buf, chunk)
    IN  IF Len(pushed) > MAX_CHUNKS THEN Tail(pushed) ELSE pushed

RECURSIVE AudioCallbacks(_, _, _)
\* k consecutive callbacks; the chunk of the n-th push since a clear is n
AudioCallbacks(buf, pushed, k) ==
    IF k = 0 THEN buf
    ELSE AudioCallbacks(onaudioprocess(buf, pushed + 1), pushed + 1, k - 1)

(***************************************************************************)
(* runSyncCheck: the pieces of the tick.                                   *)
(***************************************************************************)
\* variant: the sentinel is taken for a large finite deadline
IsPermanentLock_Finite(lock) == lock > MaxNow + STABILIZE_MS

IsPermanentLock(lock) == lock = Infinity

\* variant: the tick only asks for the audio context
InsufficientSample_ContextOnly(ctx, buf) == ~ctx

InsufficientSample(ctx, buf) == ~ctx \/ Len(buf) < MIN_CHUNKS

\* variant: the tick does not look at the deadline
IsStabilizing_Never(t, lock) == FALSE

IsStabilizing(t, lock) == LessThan(t, lock)

\* variant: a local tick scans the whole master
SearchHint_AlwaysGlobal(isGlobal, movieTime) == 0 - 1

\* searchHint = isGlobal ? -1 : currentMovieTimeRef.current
SearchHint(isGlobal, movieTime) == IF isGlobal THEN 0 - 1 ELSE movieTime

\* variant: no tick limits the width of its scan
ScanWindow_Unbounded(isGlobal) == 0 - 1

\* scanWindow = isGlobal ? -1 : 120
ScanWindow(isGlobal) == IF isGlobal THEN 0 - 1 ELSE LOCAL_SCAN_WINDOW

MinConfidence(isGlobal) ==
    IF isGlobal THEN MIN_CONFIDENCE_GLOBAL ELSE MIN_CONFIDENCE_LOCAL

IsAccepted(result, isGlobal) == result.confidence > MinConfidence(isGlobal)

\* variant: the matcher's offset is adopted as it is
AdjustedTime_Uncompensated(result) == Max(0, result.currentTime)

AdjustedTime(result) == Max(0, result.currentTime - LATENCY_COMPENSATION)

\* variant: a drift of exactly 3 s already asks for verification
NeedsVerification_Inclusive(adjustedTime, movieTime, isGlobal) ==
    Abs(adjustedTime - movieTime) >= MAX_DRIFT \/ isGlobal

\* variant: every accepted match asks for verification
NeedsVerification_Always(adjustedTime, movieTime, isGlobal) == TRUE

NeedsVerification(adjustedTime, movieTime, isGlobal) ==
    Abs(adjustedTime - movieTime) > MAX_DRIFT \/ isGlobal

ExpectedTime(p, t) == p.time + (t - p.timestamp)

\* variant: a drift of exactly the tolerance still verifies
DriftVerified_Inclusive(adjustedTime, expectedTime) ==
    Abs(adjustedTime - expectedTime) <= VERIFY_TOLERANCE

DriftVerified(adjustedTime, expectedTime) ==
    Abs(adjustedTime - expectedTime) < VERIFY_TOLERANCE

Candidate(time, timestamp, count) ==
    <<[time |-> time, timestamp |-> timestamp, count |-> count]>>

\* variant: a first observation commits at once
VerifyCandidate_FirstHitCommits(p, adjustedTime, t) ==
    IF p # NULL
    THEN IF DriftVerified(adjustedTime, ExpectedTime(p[1], t))
         THEN IF p[1].count + 1 >= REQUIRED_COUNT
              THEN [branch |-> "commit", potential |-> NULL]
              ELSE [branch |-> "counted",
                    potential |-> Candidate(adjustedTime, t, p[1].count + 1)]
         ELSE [branch |-> "reset", potential |-> Candidate(adjustedTime, t, 1)]
    ELSE [branch |-> "commit", potential |-> NULL]

\* variant: the count has to exceed the required count
VerifyCandidate_StrictCount(p, adjustedTime, t) ==
    IF p # NULL
    THEN IF DriftVerified(adjustedTime, ExpectedTime(p[1], t))
         THEN IF p[1].count + 1 > REQUIRED_COUNT
              THEN [branch |-> "commit", potential |-> NULL]
              ELSE [branch |-> "counted",
                    potential |-> Candidate(adjustedTime, t, p[1].count + 1)]
         ELSE [branch |-> "reset", potential |-> Candidate(adjustedTime, t, 1)]
    ELSE [branch |-> "first", potential |-> Candidate(adjustedTime, t, 1)]

\* variant: a mismatching observation discards the candidate outright
VerifyCandidate_ResetClears(p, adjustedTime, t) ==
    IF p # NULL
    THEN IF DriftVerified(adjustedTime, ExpectedTime(p[1], t))
         THEN IF p[1].count + 1 >= REQUIRED_COUNT
              THEN [branch |-> "commit", potential |-> NULL]
              ELSE [branch |-> "counted",
                    potential |-> Candidate(adjustedTime, t, p[1].count + 1)]
         ELSE [branch |-> "reset", potential |-> NULL]
    ELSE [branch |-> "first", potential |-> Candidate(adjustedTime, t, 1)]

\* the candidate branch of the tick: what it does with the pending candidate
VerifyCandidate(p, adjustedTime, t) ==
    IF p # NULL
    THEN IF DriftVerified(adjustedTime, ExpectedTime(p[1], t))
         THEN IF p[1].count + 1 >= REQUIRED_COUNT
              THEN [branch |-> "commit", potential |-> NULL]
              ELSE [branch |-> "counted",
                    potential |-> Candidate(adjustedTime, t, p[1].count + 1)]
         ELSE [branch |-> "reset", potential |-> Candidate(adjustedTime, t, 1)]
    ELSE [branch |-> "first", potential |-> Candidate(adjustedTime, t, 1)]

\* variant: a weak signal leaves the verification attempt pending
WeakSignalCandidate_Keeps(p) == p

\* the candidate after a match that was not accepted
WeakSignalCandidate(p) == NULL

StabilizationDeadline(t) == t + STABILIZE_MS

\* variant: the commit keeps the deadline its seekTo has just set
commitLock_SeekDeadline(t) == StabilizationDeadline(t)

\* the lock a commit leaves: seekTo(adjustedTime) sets the 5 s deadline, then
\* syncLockUntilRef.current = Infinity overrides it
commitLock(t) == Infinity

(***************************************************************************)
(* utils/audioMatcher.ts.  Envelope values are integers in units of        *)
(* 1/EnvelopeScale (3 is 0.3); sums, means and correlations are kept as    *)
(* exact fractions, so the arithmetic is that of the reals.                *)
(***************************************************************************)
TARGET_SAMPLE_RATE == 20
\* variant: one second of signal is enough
MinLivePoints_OneSecond == TARGET_SAMPLE_RATE

\* liveEnvelope.length < TARGET_SAMPLE_RATE * 2
MinLivePoints == TARGET_SAMPLE_RATE * 2
EnvelopeScale == 10
\* MIN_RMS_THRESHOLD = 0.005, squared, in millionths
MIN_RMS_THRESHOLD_SQ_E6 == 25
\* MIN_VARIANCE_THRESHOLD = 0.0005, in ten-thousandths
MIN_VARIANCE_THRESHOLD_E4 == 5

\* the sum of f[lo..hi], halving the range
RECURSIVE SumOver(_, _, _)
SumOver(f, lo, hi) ==
    IF lo > hi THEN 0
    ELSE IF lo = hi THEN f[lo]
    ELSE LET mid == (lo + hi) \div 2
         IN  SumOver(f, lo, mid) + SumOver(f, mid + 1, hi)

\* a/b < c/d for a, c >= 0 and b, d > 0, without forming the cross products
RECURSIVE FracLT(_, _, _, _)
FracLT(a, b, c, d) ==
    LET qa == a \div b
        qc == c \div d
        ra == a % b
        rc == c % d
    IN  IF qa # qc THEN qa < qc
        ELSE IF rc = 0 THEN FALSE
        ELSE IF ra = 0 THEN TRUE
        ELSE FracLT(d, rc, b, ra)

\* a correlation num / sqrt(den2); Pearson's r of a window is
\* cov / (denL * denM) with cov = num / N and (denL * denM)^2 = den2 / N^2
Corr(num, den2) == [num |-> num, den2 |-> den2]
\* let maxCorr = -1
MinusOne == Corr(0 - 1, 1)

\* r > maxCorr
CorrGT(r, maxCorr) ==
    IF r.num >= 0 /\ maxCorr.num < 0 THEN TRUE
    ELSE IF r.num < 0 /\ maxCorr.num >= 0 THEN FALSE
    ELSE IF r.num >= 0
         THEN FracLT(maxCorr.num * maxCorr.num, maxCorr.den2, r.num * r.num, r.den2)
         ELSE FracLT(r.num * r.num, r.den2, maxCorr.num * maxCorr.num, maxCorr.den2)

\* variant: the best correlation is scaled as it is
Confidence_Unclamped(maxCorr) == maxCorr

\* Math.max(0, maxCorr * 100), as the correlation it is 100 times
Confidence(maxCorr) == IF maxCorr.num <= 0 THEN Corr(0, 1) ELSE maxCorr

\* confidence >= p and confidence > p, for a percentage p >= 0
ConfidenceAtLeast(c, p) == ~FracLT(c.num * c.num, c.den2, p * p, 10000)
ConfidenceAbove(c, p) == FracLT(p * p, 10000, c.num * c.num, c.den2)

\* the statistics of a window of N points: N * sumSq - sum^2 = N * den^2
SumSq(env, lo, hi) == SumOver([j \in lo..hi |-> env[j] * env[j]], lo, hi)
Spread(env, lo, hi) ==
    LET n == hi - lo + 1
        sum == SumOver(env, lo, hi)
    IN  n * SumSq(env, lo, hi) - sum * sum

\* variant: no energy gate
EnergyGate_Open(live) == FALSE

\* rmsL < MIN_RMS_THRESHOLD || varianceL < MIN_VARIANCE_THRESHOLD
EnergyGate(live) ==
    LET N == Len(live)
    IN  \/ SumSq(live, 1, N) * 1000000
             < MIN_RMS_THRESHOLD_SQ_E6 * N * EnvelopeScale * EnvelopeScale
        \/ Spread(live, 1, N) * 10000
             < MIN_VARIANCE_THRESHOLD_E4 * N * N * EnvelopeScale * EnvelopeScale

\* Math.floor(seconds * TARGET_SAMPLE_RATE) for a time in ms
ToIndex(ms) == (ms * TARGET_SAMPLE_RATE) \div 1000
\* index / TARGET_SAMPLE_RATE, in ms
ToTime(idx) == (idx * 1000) \div TARGET_SAMPLE_RATE

\* variant: the lower limit of a local search is not clamped at 0
ScanLimits_NoLowerClamp(M, N, hint, width) ==
    IF hint >= 0 /\ width > 0
    THEN LET targetStartIdx == ToIndex(hint) - N
             widthIdx == ToIndex(width)
         IN  [startIdx |-> targetStartIdx - widthIdx,
              endIdx |-> IF M - N <= targetStartIdx + widthIdx
                         THEN M - N ELSE targetStartIdx + widthIdx]
    ELSE [startIdx |-> 0, endIdx |-> M - N]

\* the limits of the search: [startIdx, endIdx] as the code computes them
ScanLimits(M, N, hint, width) ==
    IF hint >= 0 /\ width > 0
    THEN LET targetStartIdx == ToIndex(hint) - N
             widthIdx == ToIndex(width)
         IN  [startIdx |-> Max(0, targetStartIdx - widthIdx),
              endIdx |-> IF M - N <= targetStartIdx + widthIdx
                         THEN M - N ELSE targetStartIdx + widthIdx]
    ELSE [startIdx |-> 0, endIdx |-> M - N]

\* the start offsets the sliding loop visits: for (i = startIdx; i < endIdx; i++)
ScanOffsets(limits) == limits.startIdx..(limits.endIdx - 1)

\* the correlation of the window at 0-based offset i
WindowCorr(master, live, i) ==
    LET N == Len(live)
        sumL == SumOver(live, 1, N)
        sumM == SumOver(master, i + 1, i + N)
        cross == SumOver([j \in 1..N |-> master[i + j] * live[j]], 1, N)
    IN  Corr(N * cross - sumL * sumM,
             Spread(live, 1, N) * Spread(master, i + 1, i + N))

\* let maxCorr = -1, bestStartIdx = -1
NoBest == [maxCorr |-> MinusOne, bestStartIdx |-> 0 - 1]

\* one iteration of the sliding loop: the window at offset i replaces the
\* best so far if denM > 0 and r > maxCorr.  A window that is not inside the
\* master reads undefined, its sums are NaN, and denM > 0 is false
SlideStep(master, live, i, acc) ==
    LET N == Len(live)
        inside == i >= 0 /\ i + N <= Len(master)
        flat == Spread(master, i + 1, i + N) = 0
        r == WindowCorr(master, live, i)
    IN  IF inside /\ ~flat /\ CorrGT(r, acc.maxCorr)
        THEN [maxCorr |-> r, bestStartIdx |-> i]
        ELSE acc

\* the sliding loop over the offsets lo .. hi - 1, from maxCorr = -1: the
\* first offset whose correlation no other exceeds.  The range is halved,
\* and the later half replaces the earlier only with a greater correlation,
\* as the loop's r > maxCorr does
RECURSIVE Slide(_, _, _, _)
Slide(master, live, lo, hi) ==
    IF lo >= hi THEN NoBest
    ELSE IF lo + 1 = hi THEN SlideStep(master, live, lo, NoBest)
    ELSE LET mid == (lo + hi) \div 2
             early == Slide(master, live, lo, mid)
             late == Slide(master, live, mid, hi)
         IN  IF CorrGT(late.maxCorr, early.maxCorr) THEN late ELSE early

\* the result, with what the call did: where it returned, the offsets the
\* loop visited, and maxCorr and bestStartIdx as the loop left them
MatchResult(currentTime, confidence, exit, offsets, best) ==
    [currentTime |-> currentTime, confidence |-> confidence, exit |-> exit,
     offsets |-> offsets, maxCorr |-> best.maxCorr,
     bestStartIdx |-> best.bestStartIdx]
ZeroResult(exit) == MatchResult(0, Corr(0, 1), exit, {}, NoBest)

\* findMatch(liveEnvelope, searchHintTime, scanWidthSeconds); master is
\* <<>> for null and <<envelope>> once generateMasterFingerprint has run;
\* hint and width are in ms
findMatch(master, live, hint, width) ==
    IF master = <<>> \/ Len(live) < MinLivePoints THEN ZeroResult("short")
    ELSE IF EnergyGate(live) THEN ZeroResult("energy")
    ELSE IF Spread(live, 1, Len(live)) = 0 THEN ZeroResult("flat")
    ELSE LET N == Len(live)
             limits == ScanLimits(Len(master[1]), N, hint, width)
             best == Slide(master[1], live, limits.startIdx, limits.endIdx)
         IN  MatchResult(ToTime(best.bestStartIdx + N), Confidence(best.maxCorr),
                         "scan", ScanOffsets(limits), best)

\* extractEnvelope / createLiveFingerprint over length samples at rate Hz:
\* the number of points, the window step, and the window of point i (0-based)
TotalPoints_Ceil(length, rate) ==
    (length * TARGET_SAMPLE_RATE + rate - 1) \div rate

TotalPoints(length, rate) == (length * TARGET_SAMPLE_RATE) \div rate
WindowStep(rate) == rate \div TARGET_SAMPLE_RATE
\* variant: the window index is taken as 1-based
WindowStart_OneBased(i, rate) == (i + 1) * WindowStep(rate)

WindowStart(i, rate) == i * WindowStep(rate)
WindowEnd(i, length, rate) ==
    IF WindowStart(i, rate) + WindowStep(rate) <= length
    THEN WindowStart(i, rate) + WindowStep(rate) ELSE length

\* one sample of the signal of the given shape, in units of 1/EnvelopeScale
Sample(shape, j) ==
    CASE shape = "silence" -> 0
      [] shape = "constant" -> 5
      [] shape = "square" -> IF (j \div 100) % 2 = 0 THEN 4 ELSE 0 - 4
      [] OTHER -> (j % 7) - 3

\* the sum of the squares of samples lo .. hi - 1
RECURSIVE Energy(_, _, _)
Energy(shape, lo, hi) ==
    IF lo >= hi THEN 0
    ELSE IF lo + 1 = hi THEN Sample(shape, lo) * Sample(shape, lo)
    ELSE LET mid == (lo + hi) \div 2
         IN  Energy(shape, lo, mid) + Energy(shape, mid, hi)

\* envelope[i] = Math.sqrt(sum / (end - start)): each point as the sum and the
\* divisor under the root
extractEnvelope(shape, length, rate) ==
    [k \in 1..TotalPoints(length, rate) |->
        LET start == WindowStart(k - 1, rate)
            end == WindowEnd(k - 1, length, rate)
        IN  [sum |-> Energy(shape, start, end), count |-> end - start]]

(***************************************************************************)
(* Init: the component after its first render, in the library view.        *)
(***************************************************************************)
ControllerInit ==
    /\ view = "library"
    /\ selectedMovie = NoMovie
    /\ studioContext = FALSE
    /\ masterEnvelope = NoMaster
    /\ isProcessingMatrix = FALSE
    /\ pendingStarts = <<>>
    /\ isSyncActive = FALSE
    /\ isLocked = FALSE
    /\ currentMovieTime = 0
    /\ liveBuffer = <<>>
    /\ syncInterval = Undefined
    /\ timers = {}
    /\ potentialSync = NULL
    /\ syncLockUntil = 0
    /\ isGlobalScanNeeded = TRUE
    /\ now = 0
    /\ pushedSinceClear = 0
    /\ stopRequested = FALSE
    /\ seekWindow = 0
    /\ scanned = FALSE
    /\ lastCall = Plain("init")

Init ==
    /\ ControllerInit
    /\ probe = NoProbe

\* the refs as the handler about to run finds them
Pre == [potentialSync |-> potentialSync, currentMovieTime |-> currentMovieTime,
        syncLockUntil |-> syncLockUntil, isGlobalScanNeeded |-> isGlobalScanNeeded,
        buffered |-> Len(liveBuffer), scanned |-> scanned,
        liveBuffer |-> liveBuffer, pushedSinceClear |-> pushedSinceClear,
        armed |-> Cardinality(timers)]

(***************************************************************************)
(* The environment: a second passes, and while the studio's audio context  *)
(* lives the script processor calls onaudioprocess once per 4096 samples.  *)
(***************************************************************************)
Elapse ==
    /\ now + ClockStep <= MaxNow
    /\ now' = now + ClockStep
    /\ IF studioContext
       THEN /\ liveBuffer' = AudioCallbacks(liveBuffer, pushedSinceClear, ChunksPerStep)
            /\ pushedSinceClear' = pushedSinceClear + ChunksPerStep
       ELSE UNCHANGED <<liveBuffer, pushedSinceClear>>
    /\ seekWindow' = IF now' < seekWindow THEN seekWindow ELSE 0
    /\ lastCall' = Plain("elapse")
    /\ UNCHANGED <<view, selectedMovie, studioContext, masterEnvelope,
                   isProcessingMatrix, pendingStarts, isSyncActive, isLocked,
                   currentMovieTime, syncInterval, timers, potentialSync,
                   syncLockUntil, isGlobalScanNeeded, stopRequested, scanned,
                   probe>>

(***************************************************************************)
(* The view-switching effect.                                              *)
(***************************************************************************)
\* variant: the interval the ref holds is left armed
ClearSyncInterval_Keeps(ts, ref) == ts

\* clearInterval(syncIntervalRef.current) when the ref is set
ClearSyncInterval(ts, ref) == {tm \in ts : tm.id # ref}

\* the id window.setInterval returns: one no armed timer and no ref holds
FreshTimerId(ts, ref) ==
    CHOOSE i \in 1..(Cardinality(ts) + 2) :
        /\ i # ref
        /\ \A tm \in ts : tm.id # i

EnterStudio(movie) ==
    /\ view = "library"
    /\ view' = "studio"
    /\ selectedMovie' = movie
    /\ currentMovieTime' = 0
    /\ isSyncActive' = FALSE
    /\ isLocked' = FALSE
    /\ liveBuffer' = <<>>
    /\ pushedSinceClear' = 0
    /\ potentialSync' = NULL
    /\ syncLockUntil' = 0
    /\ isGlobalScanNeeded' = TRUE
    /\ studioContext' = TRUE
    /\ lastCall' = Call("enterStudio", 0, NoPre, "", FALSE, NoResult, 0, NoStatus)
    /\ UNCHANGED <<masterEnvelope, isProcessingMatrix, pendingStarts,
                   syncInterval, timers, now, stopRequested, seekWindow,
                   scanned, probe>>

\* what stopSync does to the armed intervals and to the rolling buffer
stopSyncTimers(ts, ref) == ClearSyncInterval(ts, ref)

stopSyncBuffer(buf) == buf

\* stopSync, as the stop button and the view effect both run it
stopSyncEffect ==
    /\ isSyncActive' = FALSE
    /\ potentialSync' = NULL
    /\ syncLockUntil' = 0
    /\ isLocked' = FALSE
    /\ timers' = stopSyncTimers(timers, syncInterval)
    /\ liveBuffer' = stopSyncBuffer(liveBuffer)
    /\ stopRequested' = TRUE

LeaveStudio ==
    /\ view = "studio"
    /\ view' = "library"
    /\ stopSyncEffect
    /\ studioContext' = FALSE
    /\ lastCall' = Call("leaveStudio", 0, NoPre, "", FALSE, NoResult, 0, NoStatus)
    /\ UNCHANGED <<selectedMovie, masterEnvelope, isProcessingMatrix,
                   pendingStarts, currentMovieTime, syncInterval,
                   isGlobalScanNeeded, now, pushedSinceClear, seekWindow,
                   scanned, probe>>

\* a call of stopSync from the studio
stopSyncCall ==
    /\ view = "studio"
    /\ stopSyncEffect
    /\ lastCall' = Call("stopSync", 0, NoPre, "", FALSE, NoResult, 0, NoStatus)
    /\ UNCHANGED <<view, selectedMovie, studioContext, masterEnvelope,
                   isProcessingMatrix, pendingStarts, currentMovieTime,
                   syncInterval, isGlobalScanNeeded, now, pushedSinceClear,
                   seekWindow, scanned, probe>>

\* the stop button is rendered while a session is active
stopSync ==
    /\ isSyncActive
    /\ stopSyncCall

(***************************************************************************)
(* startSync: the call, and its continuation after processReferenceFile.   *)
(***************************************************************************)
\* variant: the session starts on the audio already buffered
startSyncBuffer_Keeps(buf) == buf

\* startSync empties the rolling buffer
startSyncBuffer(buf) == <<>>

\* the part of startSync after the master fingerprint is known to exist
startSyncBody ==
    LET id == FreshTimerId(timers, syncInterval)
    IN  /\ isSyncActive' = TRUE
        /\ isLocked' = FALSE
        /\ isGlobalScanNeeded' = TRUE
        /\ liveBuffer' = startSyncBuffer(liveBuffer)
        /\ pushedSinceClear' = 0
        /\ scanned' = FALSE
        /\ syncInterval' = id
        /\ timers' = ClearSyncInterval(timers, syncInterval)
                        \cup {[id |-> id, due |-> now + TICK_INTERVAL_MS]}
        /\ lastCall' = Call("startSync", 0,
                            [NoPre EXCEPT !.armed = Cardinality(timers)], "",
                            FALSE, NoResult, NotReported, NoStatus)

\* a call of startSync, up to its await or, with a master, to its end
startSyncCall ==
    /\ view = "studio"
    /\ stopRequested' = FALSE
    /\ IF masterEnvelope = NoMaster
       THEN /\ isProcessingMatrix' = TRUE
            /\ pendingStarts' = Append(pendingStarts, selectedMovie)
            /\ lastCall' = Plain("startSync:await")
            /\ UNCHANGED <<isSyncActive, isLocked, isGlobalScanNeeded, liveBuffer,
                           pushedSinceClear, syncInterval, timers, scanned>>
       ELSE /\ startSyncBody
            /\ UNCHANGED <<isProcessingMatrix, pendingStarts>>
    /\ UNCHANGED <<view, selectedMovie, studioContext, masterEnvelope,
                   currentMovieTime, potentialSync, syncLockUntil, now,
                   seekWindow, probe>>

\* the start button is rendered while no session is active and is disabled
\* while the master is being processed
startSync ==
    /\ ~isSyncActive
    /\ ~isProcessingMatrix
    /\ startSyncCall

RemoveAt(s, i) == SubSeq(s, 1, i - 1) \o SubSeq(s, i + 1, Len(s))

\* processReferenceFile resolves true: the master is built, startSync goes on
startSyncResume(i) ==
    /\ i \in 1..Len(pendingStarts)
    /\ pendingStarts' = RemoveAt(pendingStarts, i)
    /\ masterEnvelope' = pendingStarts[i]
    /\ isProcessingMatrix' = FALSE
    /\ startSyncBody
    /\ UNCHANGED <<view, selectedMovie, studioContext, currentMovieTime,
                   potentialSync, syncLockUntil, now, stopRequested, seekWindow,
                   probe>>

\* processReferenceFile resolves false (decoding threw): startSync returns
startSyncFail(i) ==
    /\ i \in 1..Len(pendingStarts)
    /\ pendingStarts' = RemoveAt(pendingStarts, i)
    /\ isProcessingMatrix' = FALSE
    /\ lastCall' = Plain("startSync:failed")
    /\ UNCHANGED <<view, selectedMovie, studioContext, masterEnvelope,
                   isSyncActive, isLocked, currentMovieTime, liveBuffer,
                   syncInterval, timers, potentialSync, syncLockUntil,
                   isGlobalScanNeeded, now, pushedSinceClear, stopRequested,
                   seekWindow, scanned, probe>>

(***************************************************************************)
(* seekTo and forceResync.                                                 *)
(***************************************************************************)
\* variant: a seek while locked keeps the permanent lock
seekToLock_KeepsPermanent(lock, t) ==
    IF lock = Infinity THEN Infinity ELSE StabilizationDeadline(t)

\* seekTo overwrites syncLockUntilRef, whatever it held
seekToLock(lock, t) == StabilizationDeadline(t)

\* variant: a seek discards the pending candidate
seekToCandidate_Clears(p) == NULL

\* seekTo does not assign potentialSyncRef
seekToCandidate(p) == p

seekTo(time) ==
    /\ view = "studio"
    /\ currentMovieTime' = time
    /\ potentialSync' = seekToCandidate(potentialSync)
    /\ isLocked' = FALSE
    /\ syncLockUntil' = seekToLock(syncLockUntil, now)
    /\ seekWindow' = now + STABILIZE_MS
    /\ lastCall' = Call("seekTo", time, Pre, "", FALSE, NoResult, NotReported, NoStatus)
    /\ UNCHANGED <<view, selectedMovie, studioContext, masterEnvelope,
                   isProcessingMatrix, pendingStarts, isSyncActive, liveBuffer,
                   syncInterval, timers, isGlobalScanNeeded, now,
                   pushedSinceClear, stopRequested, scanned, probe>>

\* variant: the resync keeps the buffered audio
forceResyncBuffer_Keeps(buf) == buf

forceResyncBuffer(buf) == <<>>

forceResyncCall ==
    /\ view = "studio"
    /\ isLocked' = FALSE
    /\ syncLockUntil' = 0
    /\ potentialSync' = NULL
    /\ isGlobalScanNeeded' = TRUE
    /\ liveBuffer' = forceResyncBuffer(liveBuffer)
    /\ pushedSinceClear' = 0
    /\ lastCall' = Call("forceResync", 0, Pre, "", FALSE, NoResult, 0,
                        Status("A analisar filme completo...", 0))
    /\ UNCHANGED <<view, selectedMovie, studioContext, masterEnvelope,
                   isProcessingMatrix, pendingStarts, isSyncActive,
                   currentMovieTime, syncInterval, timers, now, stopRequested,
                   seekWindow, scanned, probe>>

\* the resync button is rendered only while isLocked
forceResync ==
    /\ isLocked
    /\ forceResyncCall

(***************************************************************************)
(* runSyncCheck: one firing of the interval armed by startSync.            *)
(***************************************************************************)
\* a tick that reaches the matcher, which returns result
runSyncCheckMatch(result) ==
    LET isGlobal == isGlobalScanNeeded
        adjustedTime == AdjustedTime(result)
        v == VerifyCandidate(potentialSync, adjustedTime, now)
        Report(branch, status) ==
            [Call("tick", 0, Pre, branch, TRUE, result, result.confidence, status)
                EXCEPT !.scan = Scan(SearchHint(isGlobal, currentMovieTime),
                                     ScanWindow(isGlobal))]
    IN  /\ scanned' = TRUE
        /\ IF IsAccepted(result, isGlobal)
           THEN IF NeedsVerification(adjustedTime, currentMovieTime, isGlobal)
                THEN /\ potentialSync' = v.potential
                     /\ IF v.branch = "commit"
                        THEN \* seekTo(adjustedTime), then the permanent lock
                             /\ currentMovieTime' = adjustedTime
                             /\ isGlobalScanNeeded' = FALSE
                             /\ syncLockUntil' = commitLock(now)
                             /\ lastCall' = Report("commit",
                                                   Status("Bloqueado em", adjustedTime))
                        ELSE /\ lastCall' = Report(v.branch,
                                  CASE v.branch = "counted" ->
                                         Status("Verificacao n/2", v.potential[1].count)
                                    [] v.branch = "reset" ->
                                         Status("Verificacao 1/2 (Reset)", 0)
                                    [] OTHER -> Status("Verificacao 1/2", 0))
                             /\ UNCHANGED <<currentMovieTime, isGlobalScanNeeded,
                                            syncLockUntil>>
                ELSE /\ potentialSync' = NULL
                     /\ lastCall' = Report("stable", Status("Monitorizando...", 0))
                     /\ UNCHANGED <<currentMovieTime, isGlobalScanNeeded,
                                    syncLockUntil>>
           ELSE /\ potentialSync' = WeakSignalCandidate(potentialSync)
                /\ lastCall' = Report("weak",
                        IF potentialSync # NULL
                        THEN Status("Verificacao falhou. Reiniciando...", 0)
                        ELSE IF isGlobal THEN Status("A pesquisar filme...", 0)
                                         ELSE Status("Sinal fraco...", 0))
                /\ UNCHANGED <<currentMovieTime, isGlobalScanNeeded, syncLockUntil>>

runSyncCheck ==
    IF IsPermanentLock(syncLockUntil)
    THEN /\ isLocked' = TRUE
         /\ lastCall' = Call("tick", 0, Pre, "locked", FALSE, NoResult, 100,
                             Status("MODO CRUZEIRO", 0))
         /\ UNCHANGED <<currentMovieTime, potentialSync, syncLockUntil,
                        isGlobalScanNeeded, scanned>>
    ELSE /\ isLocked' = FALSE
         /\ IF InsufficientSample(studioContext, liveBuffer)
            THEN /\ lastCall' = Call("tick", 0, Pre, "collecting", FALSE, NoResult,
                                     NotReported,
                                     IF isGlobalScanNeeded
                                     THEN Status("A recolher amostra...", 0)
                                     ELSE NoStatus)
                 /\ UNCHANGED <<currentMovieTime, potentialSync, syncLockUntil,
                                isGlobalScanNeeded, scanned>>
            ELSE IF IsStabilizing(now, syncLockUntil)
                 THEN /\ lastCall' = Call("tick", 0, Pre, "stabilizing", FALSE,
                               NoResult, NotReported,
                               Status("Estabilizando", CeilSeconds(syncLockUntil - now)))
                      /\ UNCHANGED <<currentMovieTime, potentialSync, syncLockUntil,
                                     isGlobalScanNeeded, scanned>>
                 ELSE \E result \in MatchResults : runSyncCheckMatch(result)

\* the browser fires an armed interval that is due
Tick ==
    \E tm \in timers :
        /\ tm.due <= now
        /\ timers' = (timers \ {tm}) \cup {[id |-> tm.id, due |-> now + TICK_INTERVAL_MS]}
        /\ runSyncCheck
        /\ UNCHANGED <<view, selectedMovie, studioContext, masterEnvelope,
                       isProcessingMatrix, pendingStarts, isSyncActive, liveBuffer,
                       syncInterval, now, pushedSinceClear, stopRequested,
                       seekWindow, probe>>

Next ==
    \/ Elapse
    \/ \E movie \in Movies : EnterStudio(movie)
    \/ LeaveStudio
    \/ startSync
    \/ \E i \in 1..Len(pendingStarts) : startSyncResume(i)
    \/ \E i \in 1..Len(pendingStarts) : startSyncFail(i)
    \/ stopSync
    \/ \E time \in SeekTimes : seekTo(time)
    \/ forceResync
    \/ Tick

Spec == Init /\ [][Next]_vars

(***************************************************************************)
(* The controller as the interface its host calls: forceResync whenever    *)
(* the studio is shown, whether or not its button is rendered.             *)
(***************************************************************************)
NextCore ==
    \/ Elapse
    \/ \E movie \in Movies : EnterStudio(movie)
    \/ LeaveStudio
    \/ startSync
    \/ \E i \in 1..Len(pendingStarts) : startSyncResume(i)
    \/ \E i \in 1..Len(pendingStarts) : startSyncFail(i)
    \/ stopSync
    \/ \E time \in SeekTimes : seekTo(time)
    \/ forceResyncCall
    \/ Tick

SpecCore == Init /\ [][NextCore]_vars

(***************************************************************************)
(* startSync and stopSync as handlers that may be called in any order,     *)
(* a startSync while an earlier one still awaits processReferenceFile      *)
(* included.                                                               *)
(***************************************************************************)
MaxPending == 2

NextCalls ==
    \/ Elapse
    \/ \E movie \in Movies : EnterStudio(movie)
    \/ LeaveStudio
    \/ Len(pendingStarts) < MaxPending /\ startSyncCall
    \/ \E i \in 1..Len(pendingStarts) : startSyncResume(i)
    \/ \E i \in 1..Len(pendingStarts) : startSyncFail(i)
    \/ stopSyncCall
    \/ Tick

SpecCalls == Init /\ [][NextCalls]_vars

(***************************************************************************)
(* The AudioMatcher on its own: findMatch and the envelope extractor       *)
(* applied to inputs drawn from the sets below.                            *)
(***************************************************************************)
MaxPad == 3
\* WINDOW_SIZE_SEC = 6 seconds of signal at TARGET_SAMPLE_RATE
LiveWindowPoints == TARGET_SAMPLE_RATE * 6

\* envelopes: silence, a constant level, a level with one small step, and a
\* signal with structure
Zero(n) == [j \in 1..n |-> 0]
Flat(n) == [j \in 1..n |-> 3]
Blip(n) == [j \in 1..n |-> IF j = 1 THEN 2 ELSE 1]
Texture(n) == [j \in 1..n |-> (j * j + (j \div 3)) % 4]
Mirror(env) == [j \in 1..Len(env) |-> 3 - env[j]]
Filler(n) == [j \in 1..n |-> IF j % 2 = 0 THEN 1 ELSE 0]
\* a master of Len(env) + pad points holding env at 0-based offset k
Embed(env, pad, k) == Filler(k) \o env \o Filler(pad - k)

LiveLengths == {2 * TARGET_SAMPLE_RATE - 1, 2 * TARGET_SAMPLE_RATE, LiveWindowPoints}
LiveEnvelopes ==
    UNION {{Zero(n), Flat(n), Blip(n), Texture(n)} : n \in LiveLengths}
Hints == {0 - 1, 0, 4000, 10000}
Widths == {0 - 1, 0, 1000, LOCAL_SCAN_WINDOW}

FindMatchInput(master, live, hint, width, copyAt) ==
    [op |-> "findMatch:input", master |-> master, live |-> live,
     hint |-> hint, width |-> width, copyAt |-> copyAt]

\* masters that hold the live envelope at a known offset, scanned globally
EmbeddedInputs ==
    UNION {{FindMatchInput(<<Embed(Texture(LiveWindowPoints), pad, k)>>,
                           Texture(LiveWindowPoints), 0 - 1, 0 - 1, k) :
              k \in 0..pad} : pad \in 0..MaxPad}

OtherMasters ==
    {<<>>, <<Flat(LiveWindowPoints + MaxPad)>>,
     <<Texture(LiveWindowPoints + MaxPad)>>,
     <<Mirror(Texture(LiveWindowPoints)) \o Filler(1)>>,
     <<Mirror(Texture(LiveWindowPoints)) \o Filler(MaxPad)>>,
     <<Texture(2 * TARGET_SAMPLE_RATE)>>}

OtherInputs ==
    {FindMatchInput(master, live, hint, width, 0 - 1) :
        master \in OtherMasters, live \in LiveEnvelopes,
        hint \in Hints, width \in Widths}

\* the signals handed to the extractor: a shape, a length and a sample rate
SampleRates == {8000, 22050, SampleRate, 48000}
Shapes == {"silence", "constant", "square", "noise"}
SampleCounts(rate) ==
    LET step == WindowStep(rate)
    IN  {0, 1, step - 1, step, step + 1, 2 * step, 3 * step + 7,
         MIN_CHUNKS * SCRIPT_BUFFER_SIZE}

ExtractInputs ==
    UNION {{[op |-> "extract:input", shape |-> shape, length |-> length,
             rate |-> rate] : shape \in Shapes, length \in SampleCounts(rate)} :
           rate \in SampleRates}

MatcherInit ==
    /\ ControllerInit
    /\ probe \in EmbeddedInputs \cup OtherInputs \cup ExtractInputs

controllerVars == <<view, selectedMovie, studioContext, masterEnvelope,
                    isProcessingMatrix, pendingStarts, isSyncActive, isLocked,
                    currentMovieTime, liveBuffer, syncInterval, timers,
                    potentialSync, syncLockUntil, isGlobalScanNeeded, now,
                    pushedSinceClear, stopRequested, seekWindow, scanned,
                    lastCall>>

findMatchCall ==
    /\ probe.op = "findMatch:input"
    /\ probe' = [probe EXCEPT !.op = "findMatch"] @@
                [result |-> findMatch(probe.master, probe.live, probe.hint,
                                      probe.width)]
    /\ UNCHANGED controllerVars

extractEnvelopeCall ==
    /\ probe.op = "extract:input"
    /\ probe' = [probe EXCEPT !.op = "extract"] @@
                [envelope |-> extractEnvelope(probe.shape, probe.length, probe.rate)]
    /\ UNCHANGED controllerVars

MatcherNext ==
    \/ findMatchCall
    \/ extractEnvelopeCall

MatcherSpec == MatcherInit /\ [][MatcherNext]_vars

(***************************************************************************)
(* The bookkeeping of spoken subtitle entries on its own: seekTo applied   *)
(* to subtitle lists and times drawn from the sets below.  Entries are as  *)
(* parseSRT yields them for a well-formed file: distinct ids, no entry     *)
(* ending before it starts; windows may overlap.  Times are in seconds.    *)
(***************************************************************************)
MaxEntryTime == 4
MaxEntries == 3

Entry(id, startTime, endTime) ==
    [id |-> id, startTime |-> startTime, endTime |-> endTime]
EntryWindows ==
    {w \in (0..MaxEntryTime) \X (0..MaxEntryTime) : w[1] <= w[2]}
SrtEntries ==
    UNION {{[i \in 1..n |-> Entry(i, ws[i][1], ws[i][2])] :
              ws \in [1..n -> EntryWindows]} : n \in 0..MaxEntries}
SeekInputs ==
    {[op |-> "seekTo:input", srtEntries |-> entries, time |-> time] :
        entries \in SrtEntries, time \in 0..(MaxEntryTime + 1)}

\* variant: an entry that ends at the new time counts as ended
seekToProcessed_Inclusive(entries, time) ==
    {entries[i].id : i \in {j \in 1..Len(entries) : entries[j].endTime <= time}}

\* newProcessed: the ids of the entries that ended before the new time
seekToProcessed(entries, time) ==
    {entries[i].id : i \in {j \in 1..Len(entries) : entries[j].endTime < time}}

\* checkTTS(time): the first entry whose window holds time and which is not
\* marked is marked and spoken
checkTTS(entries, processed, time) ==
    LET hits == {i \in 1..Len(entries) :
                    /\ time >= entries[i].startTime
                    /\ time < entries[i].endTime
                    /\ entries[i].id \notin processed}
    IN  IF hits = {} THEN [processed |-> processed, spoken |-> {}]
        ELSE LET first == CHOOSE i \in hits : \A j \in hits : i <= j
             IN  [processed |-> processed \cup {entries[first].id},
                  spoken |-> {entries[first].id}]

\* what seekTo(time) leaves in processedEntryIds, and what it speaks
seekToBookkeeping(entries, time) ==
    checkTTS(entries, seekToProcessed(entries, time), time)

SeekInit ==
    /\ ControllerInit
    /\ probe \in SeekInputs

seekToCall ==
    /\ probe.op = "seekTo:input"
    /\ probe' = [probe EXCEPT !.op = "seekTo"] @@
                seekToBookkeeping(probe.srtEntries, probe.time)
    /\ UNCHANGED controllerVars

SeekNext == seekToCall

SeekSpec == SeekInit /\ [][SeekNext]_vars

TypeOK ==
    /\ view \in {"library", "studio"}
    /\ Len(potentialSync) <= 1
    /\ Len(liveBuffer) <= MAX_CHUNKS
    /\ isLocked => syncLockUntil = Infinity

(***************************************************************************)
(* Properties.  A state whose lastCall.op is "tick" is the state a tick    *)
(* left; lastCall.pre holds the refs that tick found, lastCall.result what *)
(* the matcher returned to it.                                             *)
(***************************************************************************)
TickRan == lastCall.op = "tick"
TickMatched == TickRan /\ lastCall.findMatch
Found == lastCall.pre
Pending == Found.potentialSync[1]

\* the position a matching tick derives from the matcher's offset
TickAdjusted == Max(0, lastCall.result.currentTime - LATENCY_COMPENSATION)
\* the match is accepted: its confidence is above the mode's minimum
TickAccepted ==
    lastCall.result.confidence >
        (IF Found.isGlobalScanNeeded THEN MIN_CONFIDENCE_GLOBAL
                                     ELSE MIN_CONFIDENCE_LOCAL)
\* the verification gate: global mode, or a drift of more than 3 s
TickGate ==
    \/ Found.isGlobalScanNeeded
    \/ Abs(TickAdjusted - Found.currentMovieTime) > MAX_DRIFT
\* the distance of the match from the pending candidate, extrapolated to now
TickDrift == Abs(TickAdjusted - (Pending.time + (now - Pending.timestamp)))

\* a tick in global mode, 2 s after a tick that recorded 36.0 s - 0.5 s as a
\* first observation, whose matcher result has offset `offset`
TwoTicksTwoSecondsApart(offset) ==
    /\ TickMatched
    /\ Found.isGlobalScanNeeded
    /\ Found.potentialSync = Candidate(35500, now - TICK_INTERVAL_MS, 1)
    /\ Found.buffered >= MIN_CHUNKS
    /\ lastCall.result.currentTime = offset
    /\ lastCall.result.confidence > MIN_CONFIDENCE_GLOBAL

\* C1, as claimed: two ticks 2 s apart with the same matcher result (36.0 s,
\* accepted) end Locked with the timeline at 35.5 s.
C1_IdenticalResultsLock ==
    TwoTicksTwoSecondsApart(36000) =>
        /\ syncLockUntil = Infinity
        /\ currentMovieTime = 35500

\* C1, amended: the second of two identical results is exactly 2 s away from
\* the candidate extrapolated by the 2 s that passed, so the tick resets the
\* candidate to {35.5 s, now, 1} and leaves timeline, mode and lock alone;
\* a second result of 38.0 s (the first one, 2 s later) locks at 37.5 s.
C1_IdenticalResultsReset ==
    /\ TwoTicksTwoSecondsApart(36000) =>
        /\ potentialSync = Candidate(35500, now, 1)
        /\ syncLockUntil = Found.syncLockUntil
        /\ syncLockUntil # Infinity
        /\ currentMovieTime = Found.currentMovieTime
        /\ isGlobalScanNeeded
    /\ TwoTicksTwoSecondsApart(38000) =>
        /\ potentialSync = NULL
        /\ syncLockUntil = Infinity
        /\ currentMovieTime = 37500

C1_Witness ==
    /\ TwoTicksTwoSecondsApart(36000)
    /\ lastCall.branch = "reset"

\* C2: a tick changes the timeline or sets the permanent lock only if a
\* candidate was pending when it began; an accepted match that finds none
\* pending only records {adjusted time, now, 1}.
C2_CommitNeedsPendingCandidate ==
    TickRan =>
        /\ (\/ currentMovieTime # Found.currentMovieTime
            \/ (syncLockUntil = Infinity /\ Found.syncLockUntil # Infinity))
              => Found.potentialSync # NULL
        /\ (lastCall.findMatch /\ TickAccepted /\ TickGate
              /\ Found.potentialSync = NULL)
              => /\ potentialSync = Candidate(TickAdjusted, now, 1)
                 /\ currentMovieTime = Found.currentMovieTime
                 /\ syncLockUntil = Found.syncLockUntil

C2_Witness ==
    /\ TickMatched /\ TickAccepted /\ TickGate
    /\ Found.potentialSync = NULL
    /\ potentialSync # NULL

\* C3: with a candidate pending, an accepted match that passes the gate and
\* lies within 2 s of the extrapolated candidate commits: timeline := adjusted
\* time, lock := the permanent sentinel, mode := Local, candidate cleared.
C3_VerifiedMatchCommits ==
    (TickMatched /\ TickAccepted /\ TickGate
       /\ Found.potentialSync # NULL /\ TickDrift < VERIFY_TOLERANCE)
    => /\ currentMovieTime = TickAdjusted
       /\ syncLockUntil = Infinity
       /\ ~isGlobalScanNeeded
       /\ potentialSync = NULL

C3_Witness ==
    /\ TickMatched /\ TickAccepted /\ TickGate
    /\ Found.potentialSync # NULL /\ TickDrift < VERIFY_TOLERANCE
    /\ Found.syncLockUntil # Infinity
    /\ currentMovieTime # Found.currentMovieTime

\* what C4 concludes: the candidate is replaced by a first observation and
\* timeline, mode and lock are as the tick found them
CandidateReplaced ==
    /\ potentialSync = Candidate(TickAdjusted, now, 1)
    /\ currentMovieTime = Found.currentMovieTime
    /\ isGlobalScanNeeded = Found.isGlobalScanNeeded
    /\ syncLockUntil = Found.syncLockUntil

\* C4, as claimed: with a candidate pending, an accepted match 2 s or more
\* from the extrapolated candidate replaces the candidate by
\* {adjusted time, now, 1} and changes nothing else.
C4_MismatchReplacesCandidate ==
    (TickMatched /\ TickAccepted
       /\ Found.potentialSync # NULL /\ TickDrift >= VERIFY_TOLERANCE)
    => CandidateReplaced

\* C4, amended: the same, for a match that passes the verification gate
\* (global mode, or more than 3 s from the timeline).
C4_GatedMismatchReplacesCandidate ==
    (TickMatched /\ TickAccepted /\ TickGate
       /\ Found.potentialSync # NULL /\ TickDrift >= VERIFY_TOLERANCE)
    => CandidateReplaced

C4_Witness ==
    /\ TickMatched /\ TickAccepted /\ TickGate
    /\ Found.potentialSync # NULL /\ TickDrift >= VERIFY_TOLERANCE
    /\ potentialSync # Found.potentialSync

\* C5: a tick that finds the permanent lock changes neither timeline, mode,
\* candidate nor lock, does not call the matcher and reports confidence 100.
C5_LockedTickIsIdle ==
    (TickRan /\ Found.syncLockUntil = Infinity)
    => /\ currentMovieTime = Found.currentMovieTime
       /\ isGlobalScanNeeded = Found.isGlobalScanNeeded
       /\ potentialSync = Found.potentialSync
       /\ syncLockUntil = Infinity
       /\ ~lastCall.findMatch
       /\ lastCall.confidence = 100

C5_Witness ==
    /\ TickRan /\ Found.syncLockUntil = Infinity
    /\ Found.buffered >= MIN_CHUNKS
    /\ isLocked

\* C6, as claimed: no tick before the end of the 5 s window of a seek calls
\* the matcher.
C6_NoMatchWithinSeekWindow == ~(TickMatched /\ now < seekWindow)

\* C6, amended: no tick before the end of the 5 s window of a seek calls the
\* matcher or touches candidate, timeline or lock, as long as the deadline the
\* seek set is still the lock (stopSync, forceResync and entering the studio
\* reset it).
C6_NoMatchWhileSeekDeadlineStands ==
    (TickRan /\ now < seekWindow /\ Found.syncLockUntil = seekWindow)
    => /\ ~lastCall.findMatch
       /\ potentialSync = Found.potentialSync
       /\ currentMovieTime = Found.currentMovieTime
       /\ syncLockUntil = Found.syncLockUntil

C6_Witness ==
    /\ TickRan /\ now < seekWindow /\ Found.syncLockUntil = seekWindow
    /\ Found.buffered >= MIN_CHUNKS

\* C7: seek(t) sets the timeline to t and replaces the lock, the permanent
\* sentinel included, by the deadline now + 5 s.
C7_SeekOpensWindow ==
    lastCall.op = "seekTo"
    => /\ currentMovieTime = lastCall.arg
       /\ syncLockUntil = now + STABILIZE_MS
       /\ syncLockUntil # Infinity
       /\ ~isLocked

C7_Witness ==
    /\ lastCall.op = "seekTo"
    /\ Found.syncLockUntil = Infinity

\* C8: after forceResync the lock is neither permanent nor a deadline in the
\* future, the rolling buffer is empty, no candidate is pending and the mode
\* is Global.
C8_ForceResyncResets ==
    lastCall.op = "forceResync"
    => /\ syncLockUntil # Infinity
       /\ ~(now < syncLockUntil)
       /\ liveBuffer = <<>>
       /\ potentialSync = NULL
       /\ isGlobalScanNeeded

C8_Witness ==
    /\ lastCall.op = "forceResync"
    /\ Found.potentialSync # NULL
    /\ Found.buffered > 0
    /\ Found.syncLockUntil # Infinity /\ now < Found.syncLockUntil

\* C9: right after stopSync no timer is armed, the rolling buffer is empty,
\* no candidate is pending and the lock is cleared.
C9_StopDiscardsSession ==
    lastCall.op \in {"stopSync", "leaveStudio"}
    => /\ timers = {}
       /\ liveBuffer = <<>>
       /\ potentialSync = NULL
       /\ syncLockUntil = 0

\* C10: once stopSync has run, no tick executes (and so none commits) until
\* startSync is invoked again.
C10_NoTickAfterStop == stopRequested => ~TickRan

\* the commit C10 rules out: a tick commits while the stop request stands
C10_CommitAfterStop ==
    stopRequested /\ TickRan /\ lastCall.branch = "commit"

\* the chunks numbered n - k + 1 .. n, oldest first
LatestChunks(n, k) == [i \in 1..k |-> n - k + i]

\* C11: right after startSync arms the interval the mode is Global and the
\* rolling buffer is empty; the first tick of the session that calls the
\* matcher finds Global mode and a buffer holding only chunks pushed since.
C11_SessionStartsGlobalOnFreshAudio ==
    /\ lastCall.op = "startSync" =>
        /\ \E tm \in timers : tm.id = syncInterval /\ tm.due = now + TICK_INTERVAL_MS
        /\ isGlobalScanNeeded
        /\ liveBuffer = <<>>
    /\ (TickMatched /\ ~Found.scanned) =>
        /\ Found.isGlobalScanNeeded
        /\ Found.buffered <= Found.pushedSinceClear
        /\ Found.liveBuffer = LatestChunks(Found.pushedSinceClear, Found.buffered)

C11_Witness ==
    /\ TickMatched /\ ~Found.scanned
    /\ Found.buffered >= MIN_CHUNKS
    /\ masterEnvelope # NoMaster

\* C12: a session armed by startSync (with no stop since the call) matches
\* against the master fingerprint of the movie selected for it.
C12_SessionUsesOwnMaster ==
    (lastCall.op = "startSync" /\ ~stopRequested) => masterEnvelope = selectedMovie

\* the minimum confidence of the mode the tick found
TickMinimum ==
    IF Found.isGlobalScanNeeded THEN MIN_CONFIDENCE_GLOBAL ELSE MIN_CONFIDENCE_LOCAL

\* C13: a tick whose match confidence is below the mode's minimum clears the
\* pending candidate and leaves timeline, mode and lock alone; a tick that
\* sets the permanent lock is an accepted one that found a candidate pending.
C13_WeakSignalClearsCandidate ==
    /\ (TickMatched /\ lastCall.result.confidence < TickMinimum) =>
        /\ potentialSync = NULL
        /\ currentMovieTime = Found.currentMovieTime
        /\ isGlobalScanNeeded = Found.isGlobalScanNeeded
        /\ syncLockUntil = Found.syncLockUntil
    /\ (TickRan /\ syncLockUntil = Infinity /\ Found.syncLockUntil # Infinity) =>
        /\ lastCall.findMatch
        /\ lastCall.result.confidence >= TickMinimum
        /\ Found.potentialSync # NULL

C13_Witness ==
    /\ TickMatched
    /\ lastCall.result.confidence = 0
    /\ Found.potentialSync # NULL
    /\ potentialSync = NULL

\* C14: the rolling buffer holds at most 90 chunks, and exactly the latest
\* min(n, 90) of the n chunks pushed since it was last emptied, oldest first.
C14_BufferHoldsLatestChunks ==
    /\ Len(liveBuffer) <= MAX_CHUNKS
    /\ Len(liveBuffer) = (IF pushedSinceClear < MAX_CHUNKS THEN pushedSinceClear
                                                           ELSE MAX_CHUNKS)
    /\ liveBuffer = LatestChunks(pushedSinceClear, Len(liveBuffer))

C14_Witness ==
    /\ pushedSinceClear > MAX_CHUNKS
    /\ Len(liveBuffer) = MAX_CHUNKS
    /\ liveBuffer[1] = pushedSinceClear - MAX_CHUNKS + 1

\* C20: for every accepted match, the position stored in a candidate and the
\* position adopted by a commit is the matcher's offset minus 0.5 s.
C20_PositionIsOffsetMinusLatency ==
    (TickMatched /\ TickAccepted) =>
        /\ potentialSync # NULL =>
             potentialSync[1].time = lastCall.result.currentTime - 500
        /\ (syncLockUntil = Infinity /\ Found.syncLockUntil # Infinity) =>
             currentMovieTime = lastCall.result.currentTime - 500

C20_Witness ==
    /\ TickMatched /\ TickAccepted
    /\ syncLockUntil = Infinity /\ Found.syncLockUntil # Infinity
    /\ currentMovieTime = lastCall.result.currentTime - 500
    /\ Found.potentialSync # NULL
    /\ Found.potentialSync[1].time = 35500

\* the tick found a lock that is a deadline still in the future
TickBeforeDeadline ==
    /\ TickRan
    /\ Found.syncLockUntil # Infinity
    /\ now < Found.syncLockUntil

\* C21: a tick that finds a lock that is not permanent and a deadline still
\* in the future reports Stabilizing with the seconds remaining and does not
\* call the matcher, however many chunks the buffer holds.
C21_StabilizingTakesPrecedence ==
    TickBeforeDeadline
    => /\ lastCall.branch = "stabilizing"
       /\ lastCall.status =
              Status("Estabilizando", CeilSeconds(Found.syncLockUntil - now))
       /\ ~lastCall.findMatch

\* what the code does before a deadline: it never calls the matcher, and it
\* reports Stabilizing exactly when the audio context lives and the buffer
\* holds at least 30 chunks; otherwise it returns from the sample check
C21_SampleCheckComesFirst ==
    TickBeforeDeadline
    => /\ ~lastCall.findMatch
       /\ IF studioContext /\ Found.buffered >= MIN_CHUNKS
          THEN /\ lastCall.branch = "stabilizing"
               /\ lastCall.status =
                      Status("Estabilizando", CeilSeconds(Found.syncLockUntil - now))
          ELSE /\ lastCall.branch = "collecting"
               /\ lastCall.status.text # "Estabilizando"

\* C22: a match whose confidence is at least the mode's minimum (30 in
\* Global, 40 in Local) is accepted: a confidence equal to the minimum is
\* not treated as a weak signal.
C22_MinimumConfidenceIsAccepted ==
    (TickMatched /\ lastCall.result.confidence >= TickMinimum)
    => lastCall.branch # "weak"

\* what the code does: a match is accepted exactly when its confidence
\* exceeds the minimum
C22_OnlyAboveMinimumIsAccepted ==
    TickMatched
    => (lastCall.branch # "weak" <=> lastCall.result.confidence > TickMinimum)

\* the tick took one of the branches of candidate verification
TickVerifying == lastCall.branch \in {"first", "counted", "reset", "commit"}

\* C25: an accepted match enters candidate verification if and only if the
\* mode is Global or its drift from the timeline exceeds 3 s; otherwise the
\* tick takes the stable branch, which clears the pending candidate and
\* leaves timeline, mode and lock as they were.
C25_VerificationGate ==
    (TickMatched /\ TickAccepted)
    => /\ TickVerifying <=> TickGate
       /\ ~TickGate =>
            /\ lastCall.branch = "stable"
            /\ potentialSync = NULL
            /\ currentMovieTime = Found.currentMovieTime
            /\ isGlobalScanNeeded = Found.isGlobalScanNeeded
            /\ syncLockUntil = Found.syncLockUntil

C25_Witness ==
    /\ TickMatched /\ TickAccepted
    /\ lastCall.branch = "stable"
    /\ Found.potentialSync # NULL
    /\ Abs(TickAdjusted - Found.currentMovieTime) = MAX_DRIFT

\* C26: a tick that finds a lock that is not permanent and fewer than 30
\* chunks in the buffer does not call the matcher and leaves timeline, mode,
\* candidate and lock as they were.
C26_ShortBufferTickIsIdle ==
    (TickRan /\ Found.syncLockUntil # Infinity /\ Found.buffered < MIN_CHUNKS)
    => /\ ~lastCall.findMatch
       /\ currentMovieTime = Found.currentMovieTime
       /\ isGlobalScanNeeded = Found.isGlobalScanNeeded
       /\ potentialSync = Found.potentialSync
       /\ syncLockUntil = Found.syncLockUntil

C26_Witness ==
    /\ TickRan /\ Found.syncLockUntil # Infinity
    /\ studioContext
    /\ Found.buffered > 0 /\ Found.buffered < MIN_CHUNKS
    /\ ~(now < Found.syncLockUntil)
    /\ Found.potentialSync # NULL

\* C27: a tick that reaches matching hands findMatch no hint and no width in
\* Global mode, which selects the scan of the whole master, and the timeline
\* position with a width of 120 s in Local mode.
C27_ScanArgumentsFollowMode ==
    TickMatched
    => IF Found.isGlobalScanNeeded
       THEN /\ lastCall.scan.hint < 0
            /\ lastCall.scan.width < 0
            /\ \A M \in {LiveWindowPoints, 10 * LiveWindowPoints} :
                  ScanLimits(M, LiveWindowPoints, lastCall.scan.hint,
                             lastCall.scan.width)
                      = [startIdx |-> 0, endIdx |-> M - LiveWindowPoints]
       ELSE /\ lastCall.scan.hint = Found.currentMovieTime
            /\ lastCall.scan.width = 120 * 1000

C27_Witness ==
    /\ TickMatched
    /\ ~Found.isGlobalScanNeeded
    /\ Found.currentMovieTime = 32500
    /\ lastCall.scan = Scan(32500, 120000)

\* C30: the mode changes from Global to Local only in a tick that commits,
\* and that tick leaves the permanent lock; it changes back to Global only in
\* forceResync, startSync or the entry into the studio.
C30_ModeChangesOnlyAtCommit ==
    [][/\ (isGlobalScanNeeded /\ ~isGlobalScanNeeded') =>
             /\ lastCall'.op = "tick"
             /\ lastCall'.branch = "commit"
             /\ syncLockUntil' = Infinity
       /\ (~isGlobalScanNeeded /\ isGlobalScanNeeded') =>
             lastCall'.op \in {"forceResync", "startSync", "enterStudio"}]_vars

C30_Witness ==
    /\ TickRan /\ lastCall.branch = "commit"
    /\ Found.isGlobalScanNeeded /\ ~isGlobalScanNeeded
    /\ Found.syncLockUntil # Infinity /\ syncLockUntil = Infinity

\* C28: at most one tick timer is armed at any time, whatever the order of
\* the startSync and stopSync calls and of the continuations of overlapping
\* startSync calls; the armed timer is the one syncIntervalRef holds.
C28_AtMostOneTimer ==
    /\ Cardinality(timers) <= 1
    /\ \A tm \in timers : tm.id = syncInterval

\* a startSync replaced an armed timer while another call was still awaiting
C28_Witness ==
    /\ lastCall.op = "startSync"
    /\ Found.armed = 1
    /\ pendingStarts # <<>>
    /\ Cardinality(timers) = 1

\* the tick found Local mode and a lock that is a deadline already passed,
\* the audio context alive and at least 30 chunks buffered
LocalTickAfterWindow ==
    /\ TickRan
    /\ ~Found.isGlobalScanNeeded
    /\ Found.syncLockUntil # Infinity
    /\ ~(now < Found.syncLockUntil)
    /\ studioContext
    /\ Found.buffered >= MIN_CHUNKS

\* C31: the Local scan and its stable branch are live code: after a commit,
\* a seek and the end of the 5 s window, a tick with at least 30 chunks
\* calls the matcher with the timeline position as hint and a width of
\* 120 s, and an accepted match within 3 s of the timeline takes the stable
\* branch.
C31_LocalScanAfterSeek ==
    LocalTickAfterWindow
    => /\ lastCall.findMatch
       /\ lastCall.scan = Scan(Found.currentMovieTime, LOCAL_SCAN_WINDOW)
       /\ (TickAccepted /\ Abs(TickAdjusted - Found.currentMovieTime) <= MAX_DRIFT)
              => lastCall.branch = "stable"

\* the state C31 says is reachable: the lock found is the passed deadline of
\* a seek to 32.5 s, the mode is Local (so a commit came before), and the
\* tick took the stable branch
C31_Witness ==
    /\ LocalTickAfterWindow
    /\ Found.syncLockUntil > 0
    /\ Found.currentMovieTime = 32500
    /\ lastCall.scan = Scan(32500, 120000)
    /\ lastCall.result.confidence > MIN_CONFIDENCE_LOCAL
    /\ lastCall.branch = "stable"

\* C33: the fingerprint of a matching tick is built from whole chunks: the k
\* chunks pushed last, oldest first, with 30 <= k <= 90, every one of them
\* pushed after the latest clear of the buffer (chunk n is the n-th push
\* since that clear).
C33_FingerprintIsLatestChunks ==
    TickMatched =>
        LET k == Len(Found.liveBuffer)
        IN  /\ MIN_CHUNKS <= k /\ k <= MAX_CHUNKS
            /\ k <= Found.pushedSinceClear
            /\ Found.liveBuffer = LatestChunks(Found.pushedSinceClear, k)

C33_Witness ==
    /\ TickMatched
    /\ Found.pushedSinceClear > MAX_CHUNKS
    /\ Len(Found.liveBuffer) = MAX_CHUNKS
    /\ Found.liveBuffer[1] = Found.pushedSinceClear - MAX_CHUNKS + 1
    /\ Found.liveBuffer[MAX_CHUNKS] = Found.pushedSinceClear

\* C34: in every reachable state a permanent lock implies that no candidate
\* is pending and that the mode is Local.
C34_PermanentLockIsLocalWithoutCandidate ==
    syncLockUntil = Infinity
    => /\ potentialSync = NULL
       /\ ~isGlobalScanNeeded

\* the half of C34 the code keeps
C34_PermanentLockHasNoCandidate ==
    syncLockUntil = Infinity => potentialSync = NULL

\* the state C34 rules out, as the code reaches it
C34_GlobalUnderPermanentLock ==
    /\ lastCall.op = "startSync"
    /\ syncLockUntil = Infinity
    /\ isGlobalScanNeeded

\* C35: whenever a candidate is pending its verification count is exactly 1:
\* a count of 2 commits and clears the candidate in the tick that reaches
\* it, so no tick takes the branch that would keep a greater count.
C35_PendingCountIsOne ==
    /\ potentialSync # NULL => potentialSync[1].count = 1
    /\ TickRan => lastCall.branch # "counted"
    /\ (TickRan /\ lastCall.branch = "commit") =>
          /\ Found.potentialSync # NULL
          /\ Found.potentialSync[1].count = 1
          /\ potentialSync = NULL

C35_Witness ==
    /\ TickRan /\ lastCall.branch = "commit"
    /\ Found.potentialSync # NULL
    /\ Found.potentialSync[1].count + 1 = REQUIRED_COUNT
    /\ potentialSync = NULL

\* a tick that found the passed deadline of a user's seek and a candidate
\* recorded before that seek was made
TickAfterSeekOverCandidate ==
    /\ TickMatched
    /\ Found.syncLockUntil > 0
    /\ Found.potentialSync # NULL
    /\ Pending.timestamp <= Found.syncLockUntil - STABILIZE_MS

\* C36: seekTo leaves the pending candidate, the mode and the rolling buffer
\* as they were; a tick that finds a candidate older than the seek whose
\* window has ended verifies against it, and when it commits the matched
\* position replaces the position the user sought.
C36_SeekKeepsCandidate ==
    /\ lastCall.op = "seekTo" =>
          /\ potentialSync = Found.potentialSync
          /\ isGlobalScanNeeded = Found.isGlobalScanNeeded
          /\ liveBuffer = Found.liveBuffer
    /\ (TickAfterSeekOverCandidate /\ TickAccepted /\ TickGate /\ TickDrift < 2000) =>
          /\ lastCall.branch = "commit"
          /\ currentMovieTime = TickAdjusted
          /\ syncLockUntil = Infinity

\* a candidate at 35.5 s, a seek to 32.5 s, and 5 s after the candidate the
\* first matching tick, at 40.0 - 0.5 s, commits 39.5 s
C36_Witness ==
    /\ TickAfterSeekOverCandidate
    /\ lastCall.branch = "commit"
    /\ Pending.time = 35500
    /\ now - Pending.timestamp = 5000
    /\ Found.currentMovieTime = 32500
    /\ currentMovieTime = 39500

\* a tick in Local mode that found the permanent lock dropped
LocalTickUnlocked ==
    /\ TickRan
    /\ ~Found.isGlobalScanNeeded
    /\ Found.syncLockUntil # Infinity

\* the drift of the tick's match from the timeline position the tick found
TickTimelineDrift == Abs(TickAdjusted - Found.currentMovieTime)

\* C37: in Local mode with the permanent lock dropped, a tick past the seek
\* window calls the matcher; an accepted match within 3 s of the timeline
\* leaves the lock dropped and no candidate pending; a candidate is recorded
\* only by an accepted match more than 3 s from the timeline, and the
\* permanent lock returns only in a tick whose accepted match is more than
\* 3 s from the timeline and verifies a candidate recorded that way.  The
\* mode returns to Global only through forceResync, startSync or a new entry
\* into the studio, and Local mode begins with no candidate pending.
C37_LocalRelockNeedsTwoDrifts ==
    [][/\ (~isGlobalScanNeeded /\ syncLockUntil # Infinity) =>
             /\ (potentialSync' # NULL /\ potentialSync' # potentialSync) =>
                    /\ lastCall'.op = "tick"
                    /\ lastCall'.findMatch
                    /\ lastCall'.result.confidence > MIN_CONFIDENCE_LOCAL
                    /\ Abs(AdjustedTime(lastCall'.result) - currentMovieTime) > MAX_DRIFT
             /\ syncLockUntil' = Infinity =>
                    /\ lastCall'.op = "tick"
                    /\ lastCall'.branch = "commit"
                    /\ lastCall'.result.confidence > MIN_CONFIDENCE_LOCAL
                    /\ Abs(AdjustedTime(lastCall'.result) - currentMovieTime) > MAX_DRIFT
                    /\ potentialSync # NULL
                    /\ ~isGlobalScanNeeded'
             /\ (/\ lastCall'.op = "tick"
                 /\ lastCall'.findMatch
                 /\ lastCall'.result.confidence > MIN_CONFIDENCE_LOCAL
                 /\ Abs(AdjustedTime(lastCall'.result) - currentMovieTime) <= MAX_DRIFT) =>
                    /\ lastCall'.branch = "stable"
                    /\ syncLockUntil' = syncLockUntil
                    /\ potentialSync' = NULL
             /\ (lastCall'.op = "tick" /\ ~(now < syncLockUntil)) => lastCall'.findMatch
             /\ isGlobalScanNeeded' =>
                    lastCall'.op \in {"forceResync", "startSync", "enterStudio"}
       /\ (isGlobalScanNeeded /\ ~isGlobalScanNeeded') => potentialSync' = NULL]_vars

\* the relock the claim allows: after a seek to 32.5 s a Local tick recorded
\* a candidate at 37.5 s, and the next tick, 2 s later, matched 39.5 s, 7 s
\* from the timeline, and committed it under the permanent lock
C37_Witness ==
    /\ LocalTickUnlocked
    /\ lastCall.branch = "commit"
    /\ Found.currentMovieTime = 32500
    /\ Pending.time = 37500
    /\ TickTimelineDrift > MAX_DRIFT
    /\ currentMovieTime = 39500
    /\ syncLockUntil = Infinity

(***************************************************************************)
(* Properties of the AudioMatcher (MatcherSpec).  A state whose probe.op   *)
(* is "findMatch" holds the inputs of a findMatch call and its result; one *)
(* whose probe.op is "extract" holds a signal and its envelope.            *)
(***************************************************************************)
Matched == probe.op = "findMatch"
Extracted == probe.op = "extract"
IsZeroResult(result) ==
    /\ result.currentTime = 0
    /\ result.confidence = Corr(0, 1)
    /\ result.offsets = {}
    /\ result.exit # "scan"

\* C15: findMatch returns {0, 0} without scanning when no master has been
\* built or the live envelope has fewer than 40 points, whatever the hint and
\* the width.
C15_NoMasterOrShortLiveGivesZero ==
    (Matched /\ (probe.master = <<>> \/ Len(probe.live) < 40))
    => IsZeroResult(probe.result)

C15_Witness ==
    /\ Matched
    /\ probe.master # <<>>
    /\ probe.live = Texture(39)
    /\ probe.hint >= 0 /\ probe.width > 0
    /\ IsZeroResult(probe.result)

\* the live envelope's mean square is below 0.005^2, its variance below 0.0005
LiveRmsBelowFloor ==
    SumSq(probe.live, 1, Len(probe.live)) * 1000000
        < 25 * Len(probe.live) * EnvelopeScale * EnvelopeScale
LiveVarianceBelowFloor ==
    Spread(probe.live, 1, Len(probe.live)) * 10000
        < 5 * Len(probe.live) * Len(probe.live) * EnvelopeScale * EnvelopeScale
LiveIsConstant == \A j \in 1..Len(probe.live) : probe.live[j] = probe.live[1]

\* C16: findMatch returns {0, 0} when the live envelope's RMS is below 0.005
\* or its variance below 0.0005, so for silence and for every constant
\* envelope, whatever the master.
C16_EnergyGateGivesZero ==
    (Matched /\ (LiveRmsBelowFloor \/ LiveVarianceBelowFloor \/ LiveIsConstant))
    => IsZeroResult(probe.result)

C16_Witness ==
    /\ Matched
    /\ probe.master = <<Texture(LiveWindowPoints + MaxPad)>>
    /\ probe.live = Blip(LiveWindowPoints)
    /\ ~LiveRmsBelowFloor /\ LiveVarianceBelowFloor /\ ~LiveIsConstant
    /\ IsZeroResult(probe.result)

\* the master holds the 120-point live envelope at offset copyAt and the scan
\* is global
EmbeddedCopy ==
    /\ Matched
    /\ probe.copyAt >= 0
    /\ Len(probe.live) = 120
    /\ SubSeq(probe.master[1], probe.copyAt + 1, probe.copyAt + 120) = probe.live
    /\ probe.hint < 0
\* the result is within one sample of the end of the copy, confidence >= 99
CopyFound ==
    /\ Abs(probe.result.currentTime - ((probe.copyAt + 120) * 1000) \div 20) <= 50
    /\ ConfidenceAtLeast(probe.result.confidence, 99)

\* C17: a global findMatch over a master holding an exact copy of the live
\* envelope at offset k, 0 <= k <= M - N, returns a time within one sample of
\* (k + N)/20 with confidence at least 99.
C17_EmbeddedCopyIsFound == EmbeddedCopy => CopyFound

\* the copies that are found: those that start before the last offset M - N
C17_CopyBeforeLastOffsetIsFound ==
    (EmbeddedCopy /\ probe.copyAt < Len(probe.master[1]) - 120) => CopyFound

C18_NoCorrelationWitness ==
    /\ Matched
    /\ probe.result.exit = "scan"
    /\ probe.result.offsets # {}
    /\ probe.result.bestStartIdx < 0
    /\ probe.result.confidence = Corr(0, 1)

\* C19: the extractor returns floor(duration * 20) points, duration being
\* sampleCount / sourceRate, and every point is a non-negative number: the
\* root of a non-negative sum over a non-zero count.
C19_EnvelopeLengthAndSign ==
    Extracted =>
        /\ Len(probe.envelope) = (probe.length * 20) \div probe.rate
        /\ \A k \in 1..Len(probe.envelope) :
              /\ probe.envelope[k].count >= 1
              /\ probe.envelope[k].sum >= 0

C19_Witness ==
    /\ Extracted
    /\ Len(probe.envelope) >= 3
    /\ probe.length > Len(probe.envelope) * (probe.rate \div 20)
    /\ probe.rate % 20 # 0
    /\ probe.envelope[1].sum > 0

\* a findMatch call that reached the sliding loop, and which range it chose
Scanned == Matched /\ probe.result.exit = "scan"
LocalScan == Scanned /\ probe.hint >= 0 /\ probe.width > 0
GlobalScan == Scanned /\ ~(probe.hint >= 0 /\ probe.width > 0)
MasterLength == Len(probe.master[1])
LiveLength == Len(probe.live)
\* targetStart = floor(hint * 20) - N and widthIdx = floor(width * 20)
LocalTargetStart == (probe.hint * 20) \div 1000 - LiveLength
LocalWidthIdx == (probe.width * 20) \div 1000
LocalFirst == Max(0, LocalTargetStart - LocalWidthIdx)
LocalLast ==
    IF MasterLength - LiveLength <= LocalTargetStart + LocalWidthIdx
    THEN MasterLength - LiveLength ELSE LocalTargetStart + LocalWidthIdx

\* C23: a global scan evaluates every start offset i with 0 <= i <= M - N,
\* the last valid offset M - N included, and no other.
C23_GlobalScanVisitsEveryOffset ==
    GlobalScan => probe.result.offsets = 0..(MasterLength - LiveLength)

\* what the code does: the global scan stops one offset short of M - N
C23_GlobalScanStopsBeforeLastOffset ==
    GlobalScan => probe.result.offsets = 0..(MasterLength - LiveLength - 1)

\* C24: a local scan evaluates exactly the start offsets from
\* max(0, targetStart - widthIdx) to min(M - N, targetStart + widthIdx),
\* both included; with a negative hint or a width <= 0 the call scans the
\* range of a call without hint and width.
C24_LocalScanVisitsWindow ==
    /\ LocalScan => probe.result.offsets = LocalFirst..LocalLast
    /\ GlobalScan =>
          probe.result.offsets =
              findMatch(probe.master, probe.live, 0 - 1, 0 - 1).offsets

\* what the code does: the local scan stops one offset short of its upper
\* limit
C24_LocalScanStopsBeforeUpperLimit ==
    /\ LocalScan => probe.result.offsets = LocalFirst..(LocalLast - 1)
    /\ GlobalScan =>
          probe.result.offsets =
              findMatch(probe.master, probe.live, 0 - 1, 0 - 1).offsets

MasterReads ==
    UNION {i..(i + LiveLength - 1) : i \in probe.result.offsets}
\* the hint lies beyond the last point of the master
HintBeyondMaster == (probe.hint * 20) \div 1000 > MasterLength
\* no window the loop visits has any variation
EveryWindowFlat ==
    \A i \in probe.result.offsets :
        Spread(probe.master[1], i + 1, i + LiveLength) = 0

\* C38: whatever the master length, the live length of at least 40, the hint
\* and the width, every index the sliding loop reads is in [0, M), the live
\* envelope being read at 0 .. N - 1; the range is empty when M <= N; and
\* when the range is empty or every window is flat the confidence is 0,
\* which is above neither minimum confidence of the controller.
C38_ReadsStayInsideAndEmptyScanIsZero ==
    Scanned =>
        /\ LiveLength >= 40
        /\ \A k \in MasterReads : 0 <= k /\ k < MasterLength
        /\ MasterLength <= LiveLength => probe.result.offsets = {}
        /\ (probe.result.offsets = {} \/ EveryWindowFlat) =>
              /\ probe.result.bestStartIdx < 0
              /\ probe.result.confidence = Corr(0, 1)
              /\ ~ConfidenceAbove(probe.result.confidence, MIN_CONFIDENCE_GLOBAL)
              /\ ~ConfidenceAbove(probe.result.confidence, MIN_CONFIDENCE_LOCAL)

\* a local scan of 120 live points over a master of 40 with a hint of 10 s,
\* far beyond the master's 2 s: nothing is read and the confidence is 0
C38_Witness ==
    /\ LocalScan
    /\ HintBeyondMaster
    /\ MasterLength < LiveLength
    /\ probe.hint = 10000 /\ probe.width = 1000
    /\ probe.result.offsets = {}
    /\ probe.result.confidence = Corr(0, 1)

\* a local scan whose clamped lower limit is offset 0 and which reads the
\* master from index 0 on
C38_ClampedScanWitness ==
    /\ LocalScan
    /\ LocalTargetStart - LocalWidthIdx < 0
    /\ 0 \in MasterReads
    /\ probe.result.bestStartIdx >= 0

\* a scan of a flat master: windows are read, none gives a correlation
C38_FlatMasterWitness ==
    /\ Scanned
    /\ probe.result.offsets # {}
    /\ EveryWindowFlat
    /\ probe.result.confidence = Corr(0, 1)

\* a result with positive confidence comes from a scanned offset, so its time
\* is at least the 2 s of the shortest live envelope (used by C20: the clamp
\* of the latency compensation at 0 never acts on an accepted match)
PositiveConfidenceIsAtLeastTwoSeconds ==
    (Matched /\ probe.result.confidence.num > 0)
    => /\ probe.result.bestStartIdx >= 0
       /\ probe.result.currentTime >= 2000

(***************************************************************************)
(* Properties of the subtitle bookkeeping (SeekSpec).  A state whose       *)
(* probe.op is "seekTo" holds a subtitle list, the time of a seek, and     *)
(* processedEntryIds and the entry spoken as the seek left them.           *)
(***************************************************************************)
Sought == probe.op = "seekTo"

====
